---- MODULE Spec2Model ----
(***************************************************************************)
(* Model of src/rust/phone_encoder/src/main.rs: the Prechelt phone-number  *)
(* encoder.  main loads the dictionary (load_dict), then for every line of *)
(* the number file filters its digits and runs the recursive search        *)
(* write_translations.  The recursion is modelled by an explicit call      *)
(* stack; each frame holds the parameters and locals of one activation.    *)
(* Strings are sequences of one-character strings.  Reads and writes are   *)
(* taken to succeed: the io::Result error paths are not modelled.          *)
(***************************************************************************)
EXTENDS Integers, Sequences, FiniteSets

VARIABLES words_file, input_file, pc, wi, ni, dict, num, stack, out

vars == <<words_file, input_file, pc, wi, ni, dict, num, stack, out>>

(* ------------------------------ bounds --------------------------------- *)

\* longest word list read by load_dict
MaxWords == 2

\* longest number file, in characters (line terminators included)
MaxInputLen == 3

(* ------------------------- characters and strings ---------------------- *)

\* Option::None of the two char-to-digit functions (a u8 is never negative)
None == -1

UpperChars == <<"A","B","C","D","E","F","G","H","I","J","K","L","M",
                "N","O","P","Q","R","S","T","U","V","W","X","Y","Z">>

LowerChars == <<"a","b","c","d","e","f","g","h","i","j","k","l","m",
                "n","o","p","q","r","s","t","u","v","w","x","y","z">>

DigitChars == <<"0","1","2","3","4","5","6","7","8","9">>

\* 'A'..'Z' to 'a'..'z'
LowerOf ==
    [c \in {UpperChars[k] : k \in 1..26} |->
        LowerChars[CHOOSE k \in 1..26 : UpperChars[k] = c]]

\* '0'..'9' to 0..9: (ch as usize) - ('0' as usize)
DigitOf ==
    [c \in {DigitChars[k] : k \in 1..10} |->
        (CHOOSE k \in 1..10 : DigitChars[k] = c) - 1]

to_ascii_lowercase(ch) == IF ch \in DOMAIN LowerOf THEN LowerOf[ch] ELSE ch

alpha_char_to_digit(ch) ==
    LET c == to_ascii_lowercase(ch) IN
    CASE c = "e" -> 0
      [] c \in {"j", "n", "q"} -> 1
      [] c \in {"r", "w", "x"} -> 2
      [] c \in {"d", "s", "y"} -> 3
      [] c \in {"f", "t"} -> 4
      [] c \in {"a", "m"} -> 5
      [] c \in {"c", "i", "v"} -> 6
      [] c \in {"b", "k", "u"} -> 7
      [] c \in {"l", "o", "p"} -> 8
      [] c \in {"g", "h", "z"} -> 9
      [] OTHER -> None

\* variant: a character outside '0'..'9' is taken for the digit 0
numeric_char_to_digit_accept_all(ch) ==
    IF ch \in DOMAIN DigitOf THEN DigitOf[ch] ELSE 0

\* ch >= '0' && ch <= '9': Some(ch - '0'), else None
numeric_char_to_digit(ch) ==
    IF ch \in DOMAIN DigitOf THEN DigitOf[ch] ELSE None

\* word.chars().filter_map(alpha_char_to_digit).collect()
RECURSIVE word_to_number(_)
word_to_number(word) ==
    IF word = <<>> THEN <<>>
    ELSE IF alpha_char_to_digit(Head(word)) = None
         THEN word_to_number(Tail(word))
         ELSE <<alpha_char_to_digit(Head(word))>> \o word_to_number(Tail(word))

\* main: num.chars().filter_map(numeric_char_to_digit).collect()
RECURSIVE main_digits(_)
main_digits(n) ==
    IF n = <<>> THEN <<>>
    ELSE IF numeric_char_to_digit(Head(n)) = None
         THEN main_digits(Tail(n))
         ELSE <<numeric_char_to_digit(Head(n))>> \o main_digits(Tail(n))

\* &"0123456789"[digit..][..1]
digit_to_str(digit) == <<DigitChars[digit + 1]>>

\* char::is_numeric on the characters the model uses
is_numeric(ch) == ch \in DOMAIN DigitOf

\* BufRead::lines: split at "\n"; a final line needs no terminator
RECURSIVE lines(_)
lines(s) ==
    IF s = <<>> THEN <<>>
    ELSE LET k == IF \E p \in 1..Len(s) : s[p] = "\n"
                  THEN CHOOSE p \in 1..Len(s) :
                          s[p] = "\n" /\ \A q \in 1..(p - 1) : s[q] # "\n"
                  ELSE Len(s) + 1
         IN <<SubSeq(s, 1, k - 1)>> \o lines(SubSeq(s, k + 1, Len(s)))

(* ------------------------------ inputs --------------------------------- *)

SeqsUpTo(S, n) == UNION {[1..m -> S] : m \in 0..n}

\* the words a word file may hold: keys 5, 5, 50 and the empty key
Words == {<<"a">>, <<"M">>, <<"m", "-", "E">>, <<"7">>}

\* the characters a number file may hold
NumChars == {"0", "5", "-", "\n"}

WordFiles == SeqsUpTo(Words, MaxWords)

NumberFiles == {lines(s) : s \in SeqsUpTo(NumChars, MaxInputLen)}

(* --------------------------- write_translations ------------------------ *)

\* variant: the rest keeps the last digit of the prefix
split_at_keep_rest(digits, mid) ==
    <<SubSeq(digits, 1, mid), SubSeq(digits, mid, Len(digits))>>

\* slice::split_at(mid)
split_at(digits, mid) ==
    <<SubSeq(digits, 1, mid), SubSeq(digits, mid + 1, Len(digits))>>

\* a new activation of write_translations(writer, dict, num, digits, words);
\* words is the Cons list, most recent token first (None is the empty list)
Frame(digits, words) ==
    [digits |-> digits, words |-> words, i |-> 0, j |-> 0,
     found_word |-> FALSE,
     pc |-> IF Len(digits) = 0 THEN "emit" ELSE "loop"]

\* the Cons list written oldest token first, " token" per token
RECURSIVE write_reversed(_)
write_reversed(words) ==
    IF words = <<>> THEN <<>>
    ELSE write_reversed(Tail(words)) \o <<" ">> \o Head(words)

\* variant: the previous token is never taken for a literal digit
prev_is_numeric_never(words) == FALSE

\* words.map(|c| c.data.chars().all(char::is_numeric)).unwrap_or(false)
prev_is_numeric(words) ==
    IF words = <<>> THEN FALSE
    ELSE \A k \in 1..Len(Head(words)) : is_numeric(Head(words)[k])

\* variant: found_word is not consulted
take_literal_ignore_found(found_word, words) == ~prev_is_numeric(words)

\* the condition of the literal-digit branch
take_literal(found_word, words) == ~found_word /\ ~prev_is_numeric(words)

\* variant: the bucket is walked from its end
nth_word_reversed(ws, j) == ws[Len(ws) - j]

\* the word the inner loop `for word in ws` visits in its (j+1)-th iteration
nth_word(ws, j) == ws[j + 1]

\* variant: the word is put at the front of its bucket
push_word_front(d, key, word) ==
    [k \in DOMAIN d \cup {key} |->
        IF k = key
        THEN (IF key \in DOMAIN d THEN <<word>> \o d[key] ELSE <<word>>)
        ELSE d[k]]

\* dict.entry(key).or_insert_with(Vec::new).push(word)
push_word(d, key, word) ==
    [k \in DOMAIN d \cup {key} |->
        IF k = key
        THEN (IF key \in DOMAIN d THEN Append(d[key], word) ELSE <<word>>)
        ELSE d[k]]

Top == stack[Len(stack)]

SetTop(f) == [stack EXCEPT ![Len(stack)] = f]

Searching == pc = "search" /\ stack # <<>>

(* ------------------------------- actions ------------------------------- *)

Init ==
    /\ words_file \in WordFiles
    /\ input_file \in NumberFiles
    /\ pc = "load"
    /\ wi = 0
    /\ ni = 0
    /\ dict = [k \in {} |-> <<>>]
    /\ num = <<>>
    /\ stack = <<>>
    /\ out = <<>>

\* load_dict: one iteration of `for line in words`
LoadWord ==
    /\ pc = "load"
    /\ wi < Len(words_file)
    /\ LET word == words_file[wi + 1]
           key == word_to_number(word)
       IN dict' = push_word(dict, key, word)
    /\ wi' = wi + 1
    /\ UNCHANGED <<words_file, input_file, pc, ni, num, stack, out>>

\* load_dict returns Ok(dict)
LoadDone ==
    /\ pc = "load"
    /\ wi = Len(words_file)
    /\ pc' = "numbers"
    /\ UNCHANGED <<words_file, input_file, wi, ni, dict, num, stack, out>>

\* main: one iteration of `for line in read_lines(input_file)?` up to the call
ReadNumber ==
    /\ pc = "numbers"
    /\ ni < Len(input_file)
    /\ num' = input_file[ni + 1]
    /\ ni' = ni + 1
    /\ stack' = <<Frame(main_digits(num'), <<>>)>>
    /\ pc' = "search"
    /\ UNCHANGED <<words_file, input_file, wi, dict, out>>

\* main: the number file is exhausted
Finish ==
    /\ pc = "numbers"
    /\ ni = Len(input_file)
    /\ pc' = "done"
    /\ UNCHANGED <<words_file, input_file, wi, ni, dict, num, stack, out>>

\* digits.len() == 0: write the line
Emit ==
    /\ Searching
    /\ Top.pc = "emit"
    /\ out' = Append(out, num \o <<":">> \o write_reversed(Top.words))
    /\ stack' = SetTop([Top EXCEPT !.pc = "ret"])
    /\ UNCHANGED <<words_file, input_file, pc, wi, ni, dict, num>>

\* for i in 0..digits.len(): dict.get(n) is None
LookupMiss ==
    /\ Searching
    /\ Top.pc = "loop"
    /\ Top.i < Len(Top.digits)
    /\ split_at(Top.digits, Top.i + 1)[1] \notin DOMAIN dict
    /\ stack' = SetTop([Top EXCEPT !.i = @ + 1])
    /\ UNCHANGED <<words_file, input_file, pc, wi, ni, dict, num, out>>

\* for word in ws: the recursive call for the next word of the bucket
CallWord ==
    /\ Searching
    /\ Top.pc = "loop"
    /\ Top.i < Len(Top.digits)
    /\ LET s == split_at(Top.digits, Top.i + 1)
           n == s[1]
           rest == s[2]
       IN /\ n \in DOMAIN dict
          /\ Top.j < Len(dict[n])
          /\ stack' = Append(
                 SetTop([Top EXCEPT !.found_word = TRUE, !.pc = "inword"]),
                 Frame(rest, <<nth_word(dict[n], Top.j)>> \o Top.words))
    /\ UNCHANGED <<words_file, input_file, pc, wi, ni, dict, num, out>>

\* for word in ws: the bucket is exhausted, next prefix length
BucketDone ==
    /\ Searching
    /\ Top.pc = "loop"
    /\ Top.i < Len(Top.digits)
    /\ LET n == split_at(Top.digits, Top.i + 1)[1]
       IN /\ n \in DOMAIN dict
          /\ Top.j >= Len(dict[n])
    /\ stack' = SetTop([Top EXCEPT !.i = @ + 1, !.j = 0])
    /\ UNCHANGED <<words_file, input_file, pc, wi, ni, dict, num, out>>

\* after the loop: the literal-digit branch is taken
Fallback ==
    /\ Searching
    /\ Top.pc = "loop"
    /\ Top.i = Len(Top.digits)
    /\ take_literal(Top.found_word, Top.words)
    /\ stack' = Append(
           SetTop([Top EXCEPT !.pc = "inlit"]),
           Frame(SubSeq(Top.digits, 2, Len(Top.digits)),
                 <<digit_to_str(Top.digits[1])>> \o Top.words))
    /\ UNCHANGED <<words_file, input_file, pc, wi, ni, dict, num, out>>

\* after the loop: the literal-digit branch is skipped
NoFallback ==
    /\ Searching
    /\ Top.pc = "loop"
    /\ Top.i = Len(Top.digits)
    /\ ~take_literal(Top.found_word, Top.words)
    /\ stack' = SetTop([Top EXCEPT !.pc = "ret"])
    /\ UNCHANGED <<words_file, input_file, pc, wi, ni, dict, num, out>>

\* Ok(()): the activation returns to a caller inside write_translations
Return ==
    /\ Searching
    /\ Top.pc = "ret"
    /\ Len(stack) > 1
    /\ LET below == SubSeq(stack, 1, Len(stack) - 1)
           caller == below[Len(below)]
       IN stack' = [below EXCEPT ![Len(below)] =
                        IF caller.pc = "inword"
                        THEN [caller EXCEPT !.j = @ + 1, !.pc = "loop"]
                        ELSE [caller EXCEPT !.pc = "ret"]]
    /\ UNCHANGED <<words_file, input_file, pc, wi, ni, dict, num, out>>

\* Ok(()): the outermost activation returns to main
ReturnToMain ==
    /\ Searching
    /\ Top.pc = "ret"
    /\ Len(stack) = 1
    /\ stack' = <<>>
    /\ pc' = "numbers"
    /\ UNCHANGED <<words_file, input_file, wi, ni, dict, num, out>>

Next ==
    \/ LoadWord
    \/ LoadDone
    \/ ReadNumber
    \/ Finish
    \/ Emit
    \/ LookupMiss
    \/ CallWord
    \/ BucketDone
    \/ Fallback
    \/ NoFallback
    \/ Return
    \/ ReturnToMain

Spec == Init /\ [][Next]_vars

\* the program is sequential: a step that can be taken is taken
LiveSpec == Spec /\ WF_vars(Next)

(* ------------------- reading the written lines back -------------------- *)

\* the first position of ch in s, 0 when there is none
RECURSIVE IndexFrom(_, _, _)
IndexFrom(s, ch, p) ==
    IF p > Len(s) THEN 0
    ELSE IF s[p] = ch THEN p ELSE IndexFrom(s, ch, p + 1)

IndexOf(s, ch) == IndexFrom(s, ch, 1)

\* the number a line was written for: the text before the colon
LineNum(line) == SubSeq(line, 1, IndexOf(line, ":") - 1)

\* " t1 t2 ..." split into its tokens
RECURSIVE SplitTokens(_)
SplitTokens(s) ==
    IF s = <<>> THEN <<>>
    ELSE LET r == Tail(s)
             k == IF IndexOf(r, " ") = 0 THEN Len(r) + 1 ELSE IndexOf(r, " ")
         IN <<SubSeq(r, 1, k - 1)>> \o SplitTokens(SubSeq(r, k, Len(r)))

LineTokens(line) == SplitTokens(SubSeq(line, IndexOf(line, ":") + 1, Len(line)))

DecimalChars == {"0", "1", "2", "3", "4", "5", "6", "7", "8", "9"}

IsDigitChar(ch) == ch \in DecimalChars

DigitValue(ch) ==
    CASE ch = "0" -> 0 [] ch = "1" -> 1 [] ch = "2" -> 2 [] ch = "3" -> 3
      [] ch = "4" -> 4 [] ch = "5" -> 5 [] ch = "6" -> 6 [] ch = "7" -> 7
      [] ch = "8" -> 8 [] ch = "9" -> 9

\* the characters '0'..'9' of a number, in their order, as digit values
FilteredDigits(n) ==
    LET s == SelectSeq(n, IsDigitChar) IN [k \in 1..Len(s) |-> DigitValue(s[k])]

IsLiteralToken(tok) == Len(tok) = 1 /\ IsDigitChar(tok[1])

TokenDigits(tok) ==
    IF IsLiteralToken(tok) THEN <<DigitValue(tok[1])>> ELSE word_to_number(tok)

RECURSIVE Flatten(_)
Flatten(ss) == IF ss = <<>> THEN <<>> ELSE Head(ss) \o Flatten(Tail(ss))

LiteralCount(toks) == Cardinality({t \in 1..Len(toks) : IsLiteralToken(toks[t])})

\* the numbers main has passed to write_translations so far
NumbersRead == {input_file[m] : m \in 1..ni}

\* some word of the dictionary matches a prefix of ds
HasMatch(ds) == \E L \in 1..Len(ds) : SubSeq(ds, 1, L) \in DOMAIN dict

Suffix(ds, p) == SubSeq(ds, p + 1, Len(ds))

\* the digit position at which token t of toks starts
TokenPos(toks, t) == Len(Flatten([u \in 1..(t - 1) |-> TokenDigits(toks[u])]))

(* ----------------------------- C1 -------------------------------------- *)

\* C1: every written line belongs to a number that was read, and the digit
\* encodings of its tokens, concatenated left to right, are exactly the
\* characters '0'..'9' of that number in their original order.
C1_TokensReconstructDigits ==
    \A k \in 1..Len(out) :
        LET toks == LineTokens(out[k]) IN
        /\ LineNum(out[k]) \in NumbersRead
        /\ Flatten([t \in 1..Len(toks) |-> TokenDigits(toks[t])])
              = FilteredDigits(LineNum(out[k]))

\* a line for a number with punctuation, made of a literal digit and a word
C1_Witness ==
    \E k \in 1..Len(out) :
        LET toks == LineTokens(out[k]) IN
        /\ "-" \in {LineNum(out[k])[p] : p \in 1..Len(LineNum(out[k]))}
        /\ Len(toks) = 2
        /\ IsLiteralToken(toks[1])
        /\ ~IsLiteralToken(toks[2])

(* ----------------------------- C2 -------------------------------------- *)

\* C2: no written line has two adjacent literal-digit tokens, and no
\* activation of the search was entered with two literal digits as its two
\* most recent tokens (the literal branch is taken only after a non-literal).
C2_NoAdjacentLiterals ==
    /\ \A k \in 1..Len(out) :
          LET toks == LineTokens(out[k]) IN
          \A t \in 1..(Len(toks) - 1) :
              ~(IsLiteralToken(toks[t]) /\ IsLiteralToken(toks[t + 1]))
    /\ \A f \in 1..Len(stack) :
          Len(stack[f].words) >= 2 =>
              ~(IsLiteralToken(stack[f].words[1]) /\ IsLiteralToken(stack[f].words[2]))

\* the search stands after the loop with no word found and a literal digit
\* as the previous token: the case in which the literal branch is refused
C2_Witness ==
    /\ Searching
    /\ Top.pc = "loop"
    /\ Top.i = Len(Top.digits)
    /\ ~Top.found_word
    /\ Top.words # <<>>
    /\ IsLiteralToken(Head(Top.words))

(* ----------------------------- C3 -------------------------------------- *)

\* C3: where some dictionary word matches a prefix of the remaining digits,
\* no literal digit is placed: neither in a written line nor by an activation
\* that is waiting for its literal branch to return.
C3_NoLiteralWhereWordMatches ==
    /\ \A k \in 1..Len(out) :
          LET toks == LineTokens(out[k])
              ds == FilteredDigits(LineNum(out[k]))
          IN \A t \in 1..Len(toks) :
                 IsLiteralToken(toks[t]) => ~HasMatch(Suffix(ds, TokenPos(toks, t)))
    /\ \A f \in 1..Len(stack) :
          stack[f].pc = "inlit" => ~HasMatch(stack[f].digits)

\* a number whose first position has a matching word, whose every word
\* branch ended without a line, and for which nothing was written
C3_Witness ==
    /\ pc = "done"
    /\ Len(input_file) = 1
    /\ HasMatch(FilteredDigits(input_file[1]))
    /\ out = <<>>

(* ----------------------------- C6 -------------------------------------- *)

\* C6 as stated: every written line holds at most one literal-digit token.
C6_AtMostOneLiteral ==
    \A k \in 1..Len(out) : LiteralCount(LineTokens(out[k])) <= 1

\* C6 amended: the literal-digit tokens of a written line number at most one
\* more than its word tokens (one literal per gap between words, not one per
\* line).
C6_LiteralsBoundedByWords ==
    \A k \in 1..Len(out) :
        LET toks == LineTokens(out[k]) IN
        LiteralCount(toks) <= (Len(toks) - LiteralCount(toks)) + 1

\* a written line with two literal digits around a word
C6_Witness ==
    \E k \in 1..Len(out) :
        LET toks == LineTokens(out[k]) IN
        /\ Len(toks) = 3
        /\ LiteralCount(toks) = 2
        /\ ~IsLiteralToken(toks[2])

(* ----------------------------- C5 -------------------------------------- *)

Line00 == <<"0", "0", ":", " ", "0", " ", "0">>

EmptyDict00Done ==
    /\ pc = "done"
    /\ words_file = <<>>
    /\ input_file = <<<<"0", "0">>>>

\* C5 as stated: for the number "00" and an empty dictionary the line
\* `00: 0 0` is written.
C5_TwoZerosLine == EmptyDict00Done => out = <<Line00>>

\* C5 amended: for the number "00" and an empty dictionary no line is written.
C5_TwoZerosNoLine == EmptyDict00Done => out = <<>>

\* the run on "00" with the empty dictionary has finished
C5_Witness == EmptyDict00Done /\ dict = [k \in {} |-> <<>>]

(* ----------------------------- C9 -------------------------------------- *)

KeyOf(word) == word_to_number(word)

\* the words among the first n of the word file whose key is key, in order
WordsWithKey(key, n) ==
    LET HasKey(w) == KeyOf(w) = key
    IN SelectSeq(SubSeq(words_file, 1, n), HasKey)

\* C9: after load_dict has read n words, the keys of the dictionary are the
\* keys of those words and every bucket is the subsequence of those words
\* with that key, in word-file order, repeated words repeated.
C9_BucketsAreSubsequences ==
    /\ DOMAIN dict = {KeyOf(words_file[m]) : m \in 1..wi}
    /\ \A key \in DOMAIN dict : dict[key] = WordsWithKey(key, wi)

\* the word file was read whole and one bucket holds two words
C9_Witness ==
    /\ pc # "load"
    /\ \E key \in DOMAIN dict : Len(dict[key]) = 2 /\ dict[key][1] # dict[key][2]

(* ----------------------------- C7 -------------------------------------- *)

\* every activation works on fewer digits than its caller
StrictlyShorter ==
    \A f \in 2..Len(stack) : Len(stack[f].digits) < Len(stack[f - 1].digits)

\* the nesting of recursive calls is at most the number of digits
DepthBounded == stack # <<>> => Len(stack) - 1 <= Len(stack[1].digits)

\* C7: every recursive call of write_translations gets strictly fewer
\* digits, the nesting never exceeds the number of digits, and the run ends.
C7_Terminates == [](StrictlyShorter /\ DepthBounded) /\ <>(pc = "done")

\* the recursion is as deep as the number is long
C7_Witness ==
    /\ stack # <<>>
    /\ Len(stack[1].digits) >= 2
    /\ Len(stack) = Len(stack[1].digits) + 1

(* --------------- the decompositions a number should yield -------------- *)

\* A decomposition is a sequence of choices <<L, j>>: L digits are consumed,
\* by the j-th word of the bucket of those digits, or by a literal digit
\* when j = 0.

\* the digit position at which choice k of c starts
RECURSIVE ChoicePos(_, _)
ChoicePos(c, k) == IF k = 1 THEN 0 ELSE ChoicePos(c, k - 1) + c[k - 1][1]

ChoiceDigits(ds, c, k) ==
    SubSeq(ds, ChoicePos(c, k) + 1, ChoicePos(c, k) + c[k][1])

ChoiceToken(ds, c, k) ==
    IF c[k][2] = 0
    THEN <<DigitChars[ds[ChoicePos(c, k) + 1] + 1]>>
    ELSE dict[ChoiceDigits(ds, c, k)][c[k][2]]

\* (i): the key of a word token is the digits it consumes; (ii): a literal
\* digit stands only where no word matches a prefix of the remaining digits,
\* and never directly after a literal digit
IsDecomposition(ds, c) ==
    \A k \in 1..Len(c) :
        IF c[k][2] = 0
        THEN /\ ~HasMatch(Suffix(ds, ChoicePos(c, k)))
             /\ (k = 1 \/ c[k - 1][2] # 0)
        ELSE KeyOf(ChoiceToken(ds, c, k)) = ChoiceDigits(ds, c, k)

\* the line of a decomposition: the number, a colon, " token" per token
DecompositionLine(n, c) ==
    n \o <<":">>
      \o Flatten([k \in 1..Len(c) |-> <<" ">> \o ChoiceToken(FilteredDigits(n), c, k)])

\* the choices that consume the first L digits of ds: the entries of the
\* bucket of those digits in bucket order, and for L = 1 the literal digit
ChoicesOfLength(ds, L) ==
    LET n == SubSeq(ds, 1, L)
    IN (IF n \in DOMAIN dict THEN [j \in 1..Len(dict[n]) |-> <<L, j>>] ELSE <<>>)
         \o (IF L = 1 THEN <<<<1, 0>>>> ELSE <<>>)

\* the choices at ds in search order: shorter prefix first, then bucket order
OrderedChoicesAt(ds) ==
    Flatten([L \in 1..Len(ds) |-> ChoicesOfLength(ds, L)])

\* (iii): the sequences of bucket entries and literal digits that consume
\* exactly ds, in depth-first (lexicographic) order: all sequences that begin
\* with an earlier choice come first
RECURSIVE OrderedCandidates(_)
OrderedCandidates(ds) ==
    IF ds = <<>> THEN <<<<>>>>
    ELSE LET chs == OrderedChoicesAt(ds)
             Below(ch) ==
                 LET cs == OrderedCandidates(Suffix(ds, ch[1]))
                 IN [r \in 1..Len(cs) |-> <<ch>> \o cs[r]]
         IN Flatten([x \in 1..Len(chs) |-> Below(chs[x])])

\* the decompositions of number n, (i)-(iii), in depth-first order
Decompositions(n) ==
    LET ds == FilteredDigits(n)
        Wanted(c) == IsDecomposition(ds, c)
    IN SelectSeq(OrderedCandidates(ds), Wanted)

\* their lines
OrderedLines(n) ==
    LET cs == Decompositions(n)
    IN [r \in 1..Len(cs) |-> DecompositionLine(n, cs[r])]

\* the ordered lines of the first k numbers of the number file
RECURSIVE OrderedOutput(_)
OrderedOutput(k) ==
    IF k = 0 THEN <<>> ELSE OrderedOutput(k - 1) \o OrderedLines(input_file[k])

IsPrefix(s, t) == s = <<>> \/ (Len(s) <= Len(t) /\ s = SubSeq(t, 1, Len(s)))

Occurrences(s, x) == Cardinality({k \in 1..Len(s) : s[k] = x})

(* ----------------------------- C4 -------------------------------------- *)

\* C4: the lines are written in depth-first order: every step that writes
\* a line leaves an output that is an initial part of the lines of the
\* numbers read so far, each number's lines ordered by shorter prefix first,
\* then bucket order, the lines below one word all before the next word.
C4_DepthFirstOrder ==
    [][out' # out => IsPrefix(out', OrderedOutput(ni))]_vars

\* four lines for one number: the two lines below the first word of the
\* bucket come before the lines below its second word
C4_Witness ==
    /\ pc = "done"
    /\ Len(input_file) = 1
    /\ Len(out) = 4
    /\ LineTokens(out[1])[1] = LineTokens(out[2])[1]
    /\ LineTokens(out[2])[1] # LineTokens(out[3])[1]
    /\ LineTokens(out[1])[2] # LineTokens(out[2])[2]

(* ----------------------------- C8 -------------------------------------- *)

HasNoDigit(n) == \A p \in 1..Len(n) : ~IsDigitChar(n[p])

\* C8: a number without a digit character is searched by one activation
\* alone (no word, not even one under the empty key, is tried), and when the
\* searches of the numbers read so far have returned it has, for each time
\* it was read, exactly one line: the number and a colon, no token.
C8_NoDigitsOneBareLine ==
    /\ (pc = "search" /\ HasNoDigit(num)) => Len(stack) <= 1
    /\ pc \in {"numbers", "done"} =>
          \A n \in NumbersRead :
              HasNoDigit(n) =>
                  /\ Occurrences(out, n \o <<":">>)
                        = Occurrences(SubSeq(input_file, 1, ni), n)
                  /\ \A k \in 1..Len(out) :
                        LineNum(out[k]) = n => out[k] = n \o <<":">>

\* a punctuation-only number was processed with a word under the empty key
C8_Witness ==
    /\ pc = "done"
    /\ <<>> \in DOMAIN dict
    /\ input_file = <<<<"-">>>>
    /\ out = <<<<"-", ":">>>>

(* ----------------------------- C10 ------------------------------------- *)

\* C10: when the searches of the numbers read so far have returned, the
\* output holds exactly one line per decomposition (i)-(iii) of those
\* numbers: as many lines as decompositions, and each line as often as there
\* are decompositions with that line (one per bucket entry).
C10_ExactlyTheDecompositions ==
    pc \in {"numbers", "done"} =>
        LET wanted == OrderedOutput(ni) IN
        /\ Len(out) = Len(wanted)
        /\ \A k \in 1..Len(wanted) :
              Occurrences(out, wanted[k]) = Occurrences(wanted, wanted[k])

\* a word read twice gives the same line twice
C10_Witness ==
    /\ pc = "done"
    /\ Len(words_file) = 2
    /\ words_file[1] = words_file[2]
    /\ Len(out) = 2
    /\ out[1] = out[2]
    /\ LineTokens(out[1]) # <<>>

====
